---- MODULE Spec2Model ----
(***************************************************************************)
(* A model of couchdb-nano-wrapper.js: the promise-returning facade over   *)
(* the nano CouchDB client.  The state is the configuration (the prefix),  *)
(* the server's set of databases, the insert builders, the facade          *)
(* invocations with their closure variables and deferreds, and the log of  *)
(* the transport requests with the response each callback was given.       *)
(*                                                                         *)
(* Node runs every callback to completion, and q runs the reactions of a   *)
(* settled promise in the order in which the promises were settled, so a   *)
(* callback and the q.all reaction it triggers are one step here.          *)
(***************************************************************************)
EXTENDS Integers, Sequences, FiniteSets, TLC

VARIABLES prefix, dbs, builders, calls, reqs

vars == <<prefix, dbs, builders, calls, reqs>>

----------------------------------------------------------------------------
(* Bounds of the model. *)

\* facade invocations in one behaviour
MaxCalls == 1
\* deleteDoc invocations in one behaviour of SpecDelete
MaxDeletes == 2
\* longest array of names handed to checkDbExists
MaxNames == 2
\* longest array of documents handed to insert
MaxItems == 2
\* most arguments a getView builder collects before it is executed
MaxArgs == 3

\* invocations of a create / checkDbExists / destroy sequence
MaxSteps == 4

\* overlapping invocations of checkDbExists
MaxChecks == 2

\* executions of one getView builder
MaxFroms == 2

----------------------------------------------------------------------------
(* The values the model draws its inputs from. *)

\* config.db.prefix: unset (falsy) or a string
Prefixes == {"", "p_"}

\* logical database names the callers use
DbNames == {"a", "b"}

\* every name the server can hold, in the order the server lists them
AllNamesSeq == <<"a", "b", "p_a", "p_b">>

AllNames == {AllNamesSeq[i] : i \in 1..Len(AllNamesSeq)}

\* documents, and the fields withKey can name
Docs == {[name |-> "jeff", kind |-> "cat"], [name |-> "annie", kind |-> "dog"]}

KeyNames == {"name"}

DocIds == {"jeff", "annie"}

\* revisions the server hands out
Revs == {"1-x", "2-y"}

\* JavaScript's undefined, defined values, arrays, and null (the error of a successful callback)
Undefined == [defined |-> FALSE]

Defined(v) == [defined |-> TRUE, value |-> v]

Array(s) == [defined |-> TRUE, list |-> s]

\* if (x): undefined and the empty string are falsy
Truthy(x) == x.defined /\ x.value # ""

Null == [name |-> "null"]

\* the error object the transport creates for request r
Error(r, name) == [name |-> name, request |-> r]

\* all sequences over S of length 0..n
SeqsUpTo(S, n) == UNION {[1..k -> S] : k \in 0..n}

\* an argument that is either one value or an array of values
Scalar(v) == [isArray |-> FALSE, scalar |-> v]

ArrayArg(s) == [isArray |-> TRUE, array |-> s]

\* Array.isArray(x) ? x : [x]
\* a normalisation that leaves a single item out
AsArrayOfArrays(x) == IF x.isArray THEN x.array ELSE <<>>

AsArray(x) == IF ~x.isArray THEN <<x.scalar>> ELSE x.array

----------------------------------------------------------------------------
(* q: the state of a promise, as promise.inspect() gives it. *)

Pending == [state |-> "pending"]

Fulfilled(v) == [state |-> "fulfilled", value |-> v]

Rejected(e) == [state |-> "rejected", reason |-> e]

\* defer.resolve / defer.reject: a settled promise stays as it is
Resolve(defer, v) == IF defer.state = "pending" THEN Fulfilled(v) ELSE defer

\* a reject that overwrites whatever the promise holds
RejectOverwrites(defer, e) == Rejected(e)

Reject(defer, e) == IF defer.state = "pending" THEN Rejected(e) ELSE defer

AllFulfilled(promises) ==
    \A i \in 1..Len(promises) : promises[i].state = "fulfilled"

\* the values in the reverse of the promises' order
ValuesReversed(promises) ==
    [i \in 1..Len(promises) |-> promises[Len(promises) + 1 - i].value]

Values(promises) == [i \in 1..Len(promises) |-> promises[i].value]

\* q.all(promises) at the time of the call: fulfilled at once when nothing is
\* pending, otherwise pending until QAllSettled reacts
QAll(promises) ==
    IF AllFulfilled(promises) THEN Fulfilled(Values(promises)) ELSE Pending

\* an aggregate that rejects only when every constituent has been settled
QAllWaitsForAll(all, promises, i) ==
    IF \E j \in 1..Len(promises) : promises[j].state = "pending" THEN all
    ELSE IF \E j \in 1..Len(promises) : promises[j].state = "rejected"
    THEN Reject(all, promises[CHOOSE j \in 1..Len(promises) :
                                  promises[j].state = "rejected"].reason)
    ELSE Resolve(all, Values(promises))

\* the reaction of q.all's promise `all` to constituent i having been settled:
\* a rejection rejects it, the last fulfilment fulfils it with the values by
\* position, and a settled promise never changes
QAllSettled(all, promises, i) ==
    IF promises[i].state = "rejected" THEN Reject(all, promises[i].reason)
    ELSE IF AllFulfilled(promises) THEN Resolve(all, Values(promises))
    ELSE all

----------------------------------------------------------------------------
(* The transport (nano) and the server behind it. *)

Waiting == [delivered |-> FALSE]

Response(error, body) == [delivered |-> TRUE, error |-> error, body |-> body]

\* a request handed to nano by invocation `call`: the method, the database it
\* addresses, its arguments before the callback, and the deferred (`owner`,
\* `slot`) that the callback nano will call closes over
Request(call, method, db, args, owner, slot) ==
    [call |-> call, method |-> method, db |-> db, args |-> args,
     owner |-> owner, slot |-> slot, resp |-> Waiting]

\* GET /_all_dbs
Listing(S) == SelectSeq(AllNamesSeq, LAMBDA n : n \in S)

\* the requests (indices of reqs) that invocation c has issued with `method`
RequestsOf(c, method) ==
    {r \in 1..Len(reqs) : reqs[r].call = c /\ reqs[r].method = method}

InFlight(r, method) ==
    /\ r \in 1..Len(reqs)
    /\ reqs[r].method = method
    /\ ~reqs[r].resp.delivered

\* the requests sent with `method` whose callback is still to come
Sent(method) == {r \in 1..Len(reqs) : InFlight(r, method)}

\* the answers to a request that reads or writes a document: the body the
\* server sends, or an error with no body
DocResponses(r, bodies, errorName) ==
    {Response(Null, b) : b \in bodies} \cup
    {Response(Error(r, errorName), Undefined)}

----------------------------------------------------------------------------
(* getDbName *)

\* a resolver that never applies the prefix
GetDbNameUnprefixed(dbName) == dbName

GetDbName(dbName) == IF prefix # "" THEN prefix \o dbName ELSE dbName


\* if (error)
IsError(error) == error # Null

\* the two-branch callback of the single-step operations: reject with the
\* error, or resolve with `value`
Settle(defer, error, value) ==
    IF IsError(error) THEN Reject(defer, error) ELSE Resolve(defer, value)

\* every action below appends the invocation and the requests it issues
Issue(call, requests) ==
    /\ calls' = Append(calls, call)
    /\ reqs' = reqs \o requests

\* a callback: the response is recorded and the invocation updated
Deliver(r, resp, c, call) ==
    /\ reqs' = [reqs EXCEPT ![r].resp = resp]
    /\ calls' = [calls EXCEPT ![c] = call]

----------------------------------------------------------------------------
(* create, destroy *)

Create(dbName) ==
    LET c == Len(calls) + 1
    IN  /\ Issue([op |-> "create", logical |-> dbName, result |-> Pending],
                 <<Request(c, "db.create", GetDbName(dbName), <<>>, c, 0)>>)
        /\ UNCHANGED <<prefix, dbs, builders>>

\* PUT /db: the database is created unless it exists or the request fails
CreateOutcomes(r) ==
    (IF reqs[r].db \in dbs
     THEN {[resp |-> Response(Error(r, "file_exists"), Undefined), dbs |-> dbs]}
     ELSE {[resp |-> Response(Null, [ok |-> TRUE]),
            dbs |-> dbs \cup {reqs[r].db}]})
    \cup {[resp |-> Response(Error(r, "ECONNREFUSED"), Undefined), dbs |-> dbs]}

CreateCallback(r, out) ==
    /\ InFlight(r, "db.create")
    /\ LET c == reqs[r].owner
       IN  Deliver(r, out.resp, c,
                   [calls[c] EXCEPT !.result =
                        Settle(calls[c].result, out.resp.error, Undefined)])
    /\ dbs' = out.dbs
    /\ UNCHANGED <<prefix, builders>>

Destroy(dbName) ==
    LET c == Len(calls) + 1
    IN  /\ Issue([op |-> "destroy", logical |-> dbName, result |-> Pending],
                 <<Request(c, "db.destroy", GetDbName(dbName), <<>>, c, 0)>>)
        /\ UNCHANGED <<prefix, dbs, builders>>

\* DELETE /db: the database is removed unless it is absent or the request fails
DestroyOutcomes(r) ==
    (IF reqs[r].db \in dbs
     THEN {[resp |-> Response(Null, [ok |-> TRUE]),
            dbs |-> dbs \ {reqs[r].db}]}
     ELSE {[resp |-> Response(Error(r, "not_found"), Undefined), dbs |-> dbs]})
    \cup {[resp |-> Response(Error(r, "ECONNREFUSED"), Undefined), dbs |-> dbs]}

DestroyCallback(r, out) ==
    /\ InFlight(r, "db.destroy")
    /\ LET c == reqs[r].owner
       IN  Deliver(r, out.resp, c,
                   [calls[c] EXCEPT !.result =
                        Settle(calls[c].result, out.resp.error, Undefined)])
    /\ dbs' = out.dbs
    /\ UNCHANGED <<prefix, builders>>

----------------------------------------------------------------------------
(* insert *)

\* insert(items): the builder, with keyName not yet set; given is the
\* argument as the caller passed it
Insert(items) ==
    /\ builders' = Append(builders,
            [kind |-> "insert", given |-> items, items |-> AsArray(items),
             keyName |-> Undefined])
    /\ UNCHANGED <<prefix, dbs, calls, reqs>>

WithKey(b, _keyName) ==
    /\ b \in 1..Len(builders)
    /\ builders[b].kind = "insert"
    /\ builders' = [builders EXCEPT ![b].keyName = Defined(_keyName)]
    /\ UNCHANGED <<prefix, dbs, calls, reqs>>

\* args before the callback: [item], with keyName spliced in at 1 when set
InsertArgs(item, keyName) ==
    IF Truthy(keyName) THEN <<item, keyName.value>> ELSE <<item>>

\* into issuing the insert of the first document only
IntoFirstOnly(b, dbName) ==
    /\ b \in 1..Len(builders)
    /\ builders[b].kind = "insert"
    /\ LET c == Len(calls) + 1
           items == builders[b].items
           keyName == builders[b].keyName
           inserting == [i \in 1..Len(items) |-> Pending]
       IN  Issue([op |-> "insert", logical |-> dbName,
                  given |-> builders[b].given, items |-> items,
                  keyName |-> keyName, index |-> 0, inserting |-> inserting,
                  result |-> QAll(inserting)],
                 [i \in 1..(IF Len(items) > 0 THEN 1 ELSE 0) |->
                     Request(c, "insert", GetDbName(dbName),
                             InsertArgs(items[i], keyName), c, i)])
    /\ UNCHANGED <<prefix, dbs, builders>>

Into(b, dbName) ==
    /\ b \in 1..Len(builders)
    /\ builders[b].kind = "insert"
    /\ LET c == Len(calls) + 1
           items == builders[b].items
           keyName == builders[b].keyName
           inserting == [i \in 1..Len(items) |-> Pending]
       IN  Issue([op |-> "insert", logical |-> dbName,
                  given |-> builders[b].given, items |-> items,
                  keyName |-> keyName, index |-> 0, inserting |-> inserting,
                  result |-> QAll(inserting)],
                 [i \in 1..Len(items) |->
                     Request(c, "insert", GetDbName(dbName),
                             InsertArgs(items[i], keyName), c, i)])
    /\ UNCHANGED <<prefix, dbs, builders>>

\* PUT or POST of a document: the server names the document as asked, or
\* gives it an identifier of its own
InsertBody(r) ==
    [ok |-> TRUE,
     id |-> IF Len(reqs[r].args) > 1 THEN reqs[r].args[2]
            ELSE "uuid" \o ToString(r),
     rev |-> "1-x"]

InsertResponses(r) == DocResponses(r, {InsertBody(r)}, "conflict")

InsertCallback(r, resp) ==
    /\ InFlight(r, "insert")
    /\ calls[reqs[r].owner].op = "insert"
    /\ LET c == reqs[r].owner
           i == reqs[r].slot
           call == calls[c]
           defer == Settle(call.inserting[i], resp.error, resp.body)
           inserting == [call.inserting EXCEPT ![i] = defer]
       IN  Deliver(r, resp, c,
                   [call EXCEPT
                       !.inserting = inserting,
                       !.index = IF IsError(resp.error) THEN @ ELSE @ + 1,
                       !.result = QAllSettled(call.result, inserting, i)])
    /\ UNCHANGED <<prefix, dbs, builders>>

----------------------------------------------------------------------------
(* get, getList *)

Get(_id, dbName) ==
    LET c == Len(calls) + 1
    IN  /\ Issue([op |-> "get", logical |-> dbName, result |-> Pending],
                 <<Request(c, "get", GetDbName(dbName), <<_id>>, c, 0)>>)
        /\ UNCHANGED <<prefix, dbs, builders>>

\* GET /db/id: the document at one of its revisions, or not_found
DocBodies(r) == {[_id |-> reqs[r].args[1], _rev |-> rev] : rev \in Revs}

GetResponses(r) == DocResponses(r, DocBodies(r), "not_found")

GetCallback(r, resp) ==
    /\ InFlight(r, "get")
    /\ calls[reqs[r].owner].op = "get"
    /\ LET c == reqs[r].owner
       IN  Deliver(r, resp, c,
                   [calls[c] EXCEPT !.result =
                        Settle(calls[c].result, resp.error, resp.body)])
    /\ UNCHANGED <<prefix, dbs, builders>>

GetList(dbName) ==
    LET c == Len(calls) + 1
    IN  /\ Issue([op |-> "getList", logical |-> dbName, result |-> Pending],
                 <<Request(c, "list", GetDbName(dbName), <<>>, c, 0)>>)
        /\ UNCHANGED <<prefix, dbs, builders>>

\* GET /db/_all_docs
AllDocsBody == [total_rows |-> 0, rows |-> <<>>]

GetListResponses(r) == DocResponses(r, {AllDocsBody}, "not_found")

GetListCallback(r, resp) ==
    /\ InFlight(r, "list")
    /\ LET c == reqs[r].owner
       IN  Deliver(r, resp, c,
                   [calls[c] EXCEPT !.result =
                        Settle(calls[c].result, resp.error, resp.body)])
    /\ UNCHANGED <<prefix, dbs, builders>>

----------------------------------------------------------------------------
(* addDesign *)

\* the design document built from viewMaps: a view keeps its reduce only
\* when it has one
Design(viewMaps) ==
    [language |-> "javascript",
     views |-> [v \in DOMAIN viewMaps |->
                   IF "reduce" \in DOMAIN viewMaps[v]
                   THEN [map |-> viewMaps[v].map, reduce |-> viewMaps[v].reduce]
                   ELSE [map |-> viewMaps[v].map]]]

AddDesign(designName, viewMaps, dbName) ==
    LET c == Len(calls) + 1
    IN  /\ Issue([op |-> "addDesign", logical |-> dbName, result |-> Pending],
                 <<Request(c, "insert", GetDbName(dbName),
                           <<Design(viewMaps), "_design/" \o designName>>,
                           c, 0)>>)
        /\ UNCHANGED <<prefix, dbs, builders>>

DesignCallback(r, resp) ==
    /\ InFlight(r, "insert")
    /\ calls[reqs[r].owner].op = "addDesign"
    /\ LET c == reqs[r].owner
       IN  Deliver(r, resp, c,
                   [calls[c] EXCEPT !.result =
                        Settle(calls[c].result, resp.error, resp.body)])
    /\ UNCHANGED <<prefix, dbs, builders>>

----------------------------------------------------------------------------
(* getView *)

\* the entries of the args array
String(s) == [t |-> "string", v |-> s]

Object(o) == [t |-> "object", v |-> o]

\* the callback that from() creates in invocation c
Function(c) == [t |-> "function", call |-> c]

\* getView(designName, viewName): the builder, holding args; given is the
\* truthy params the caller has passed to withParams so far
GetView(designName, viewName) ==
    /\ builders' = Append(builders,
            [kind |-> "getView", designName |-> designName,
             viewName |-> viewName, given |-> <<>>,
             args |-> <<String(designName), String(viewName)>>])
    /\ UNCHANGED <<prefix, dbs, calls, reqs>>

\* withParams putting the params in front of the names
WithParamsFirst(b, params) ==
    /\ b \in 1..Len(builders)
    /\ builders[b].kind = "getView"
    /\ builders' = [builders EXCEPT
                       ![b].args = IF params.defined
                                   THEN <<Object(params.value)>> \o @ ELSE @,
                       ![b].given = IF params.defined
                                    THEN Append(@, params.value) ELSE @]
    /\ UNCHANGED <<prefix, dbs, calls, reqs>>

WithParams(b, params) ==
    /\ b \in 1..Len(builders)
    /\ builders[b].kind = "getView"
    /\ builders' = [builders EXCEPT
                       ![b].args = IF params.defined
                                   THEN Append(@, Object(params.value)) ELSE @,
                       ![b].given = IF params.defined
                                    THEN Append(@, params.value) ELSE @]
    /\ UNCHANGED <<prefix, dbs, calls, reqs>>

\* nano's view(designName, viewName, params, callback): when the third
\* argument is a function it is the callback; 0 when no callback is found
ViewCallbackOf(args) ==
    IF Len(args) >= 3 /\ args[3].t = "function" THEN args[3].call
    ELSE IF Len(args) >= 4 /\ args[4].t = "function" THEN args[4].call
    ELSE 0

From(b, dbName) ==
    /\ b \in 1..Len(builders)
    /\ builders[b].kind = "getView"
    /\ LET c == Len(calls) + 1
           args == Append(builders[b].args, Function(c))
       IN  /\ builders' = [builders EXCEPT ![b].args = args]
           /\ Issue([op |-> "getView", logical |-> dbName, builder |-> b,
                     designName |-> builders[b].designName,
                     viewName |-> builders[b].viewName,
                     given |-> builders[b].given, result |-> Pending],
                    <<Request(c, "view", GetDbName(dbName), args,
                              ViewCallbackOf(args), 0)>>)
    /\ UNCHANGED <<prefix, dbs>>

\* GET /db/_design/d/_view/v
ViewBody == [total_rows |-> 0, offset |-> 0, rows |-> <<>>]

ViewResponses(r) == DocResponses(r, {ViewBody}, "not_found")

ViewCallback(r, resp) ==
    /\ InFlight(r, "view")
    /\ reqs[r].owner # 0
    /\ LET c == reqs[r].owner
       IN  Deliver(r, resp, c,
                   [calls[c] EXCEPT !.result =
                        Settle(calls[c].result, resp.error, resp.body)])
    /\ UNCHANGED <<prefix, dbs, builders>>

----------------------------------------------------------------------------
(* checkDbExists *)

\* Array.prototype.indexOf, 0-based, -1 when absent
IndexOf(s, x) ==
    IF \E i \in 1..Len(s) : s[i] = x
    THEN (CHOOSE i \in 1..Len(s) : s[i] = x /\ \A j \in 1..(i - 1) : s[j] # x) - 1
    ELSE -1

\* runChecks with the test indexOf(dbName) > 0
RunChecksPositive(defer, dbList, dbName) ==
    IF dbList.defined
    THEN [threw |-> FALSE,
          defer |-> Resolve(defer, IndexOf(dbList.list, dbName) > 0)]
    ELSE [threw |-> TRUE, defer |-> defer]

\* runChecks(defer, dbName): dbList.indexOf throws a TypeError when dbList is
\* undefined, and the deferred is then left as it was
RunChecks(defer, dbList, dbName) ==
    IF dbList.defined
    THEN [threw |-> FALSE,
          defer |-> Resolve(defer, IndexOf(dbList.list, dbName) # -1)]
    ELSE [threw |-> TRUE, defer |-> defer]

\* dbNames.forEach(...): one deferred per name; a name is checked at once when
\* dbList is set, and otherwise a list request is issued for it.  `issued` is
\* the deferreds (by position) for which a request went out.
RECURSIVE ForEachName(_, _, _, _)
ForEachName(dbNames, dbList, promises, issued) ==
    IF dbNames = <<>> THEN [promises |-> promises, issued |-> issued]
    ELSE IF dbList.defined
    THEN ForEachName(Tail(dbNames), dbList,
                     Append(promises,
                            RunChecks(Pending, dbList, Head(dbNames)).defer),
                     issued)
    ELSE ForEachName(Tail(dbNames), dbList, Append(promises, Pending),
                     Append(issued, Len(promises) + 1))

CheckDbExists(arg) ==
    LET dbNames == AsArray(arg)
        each == ForEachName(dbNames, Undefined, <<>>, <<>>)
        c == Len(calls) + 1
    IN  /\ Issue([op |-> "checkDbExists", arg |-> arg, dbNames |-> dbNames,
                  dbList |-> Undefined, promises |-> each.promises,
                  threw |-> FALSE, result |-> QAll(each.promises)],
                 [k \in 1..Len(each.issued) |->
                     Request(c, "db.list", "", <<>>, c, each.issued[k])])
        /\ UNCHANGED <<prefix, dbs, builders>>

\* GET /_all_dbs: the listing, or an error with no body
ListResponses(r) ==
    {Response(Null, Array(Listing(dbs))),
     Response(Error(r, "ECONNREFUSED"), Undefined)}

\* the callback with dbList kept outside checkDbExists: a listing answered to
\* any invocation is the one every later callback uses
ListCallbackShared(r, resp) ==
    /\ InFlight(r, "db.list")
    /\ LET c == reqs[r].owner
           i == reqs[r].slot
           call == calls[c]
           answered == {q \in 1..Len(reqs) :
                           /\ reqs[q].method = "db.list"
                           /\ reqs[q].resp.delivered
                           /\ ~IsError(reqs[q].resp.error)}
           dbList == IF answered = {} THEN resp.body
                     ELSE reqs[CHOOSE q \in answered :
                                  \A h \in answered : q <= h].resp.body
           ran == RunChecks(call.promises[i], dbList, call.dbNames[i])
           promises == [call.promises EXCEPT ![i] = ran.defer]
       IN  Deliver(r, resp, c,
                   [call EXCEPT
                       !.dbList = dbList,
                       !.promises = promises,
                       !.threw = @ \/ ran.threw,
                       !.result = IF ran.threw THEN @
                                  ELSE QAllSettled(@, promises, i)])
    /\ UNCHANGED <<prefix, dbs, builders>>

\* function (error, _dbList) { dbList = _dbList; runChecks(defer, dbName); }
ListCallback(r, resp) ==
    /\ InFlight(r, "db.list")
    /\ LET c == reqs[r].owner
           i == reqs[r].slot
           call == calls[c]
           dbList == resp.body
           ran == RunChecks(call.promises[i], dbList, call.dbNames[i])
           promises == [call.promises EXCEPT ![i] = ran.defer]
       IN  Deliver(r, resp, c,
                   [call EXCEPT
                       !.dbList = dbList,
                       !.promises = promises,
                       !.threw = @ \/ ran.threw,
                       !.result = IF ran.threw THEN @
                                  ELSE QAllSettled(@, promises, i)])
    /\ UNCHANGED <<prefix, dbs, builders>>

----------------------------------------------------------------------------
(* deleteDoc *)

DeleteDocFrom(docId, dbName) ==
    LET c == Len(calls) + 1
    IN  /\ Issue([op |-> "deleteDoc", logical |-> dbName, docId |-> docId,
                  db |-> dbName, result |-> Pending],
                 <<Request(c, "get", dbName, <<docId, [revs_info |-> TRUE]>>,
                           c, 0)>>)
        /\ UNCHANGED <<prefix, dbs, builders>>

\* a destroy that takes the revision of the first get answered to any
\* invocation, as a revision cached outside the invocation would be
DocDestroyArgsCached(docId, revInfo) ==
    LET answered == {g \in 1..Len(reqs) :
                        /\ reqs[g].method = "get"
                        /\ reqs[g].resp.delivered
                        /\ ~IsError(reqs[g].resp.error)}
    IN  IF answered = {} THEN <<docId, revInfo._rev>>
        ELSE <<docId,
               reqs[CHOOSE g \in answered : \A h \in answered : g <= h]
                   .resp.body._rev>>

\* db.destroy(docId, revInfo._rev, ...)
DocDestroyArgs(docId, revInfo) == <<docId, revInfo._rev>>

\* the callback of the get without the return after the reject
RevCallbackNoReturn(r, resp) ==
    /\ InFlight(r, "get")
    /\ calls[reqs[r].owner].op = "deleteDoc"
    /\ LET c == reqs[r].owner
           call == calls[c]
       IN  /\ calls' = [calls EXCEPT ![c].result =
                           IF IsError(resp.error) THEN Reject(@, resp.error)
                           ELSE @]
           /\ reqs' = Append([reqs EXCEPT ![r].resp = resp],
                             Request(c, "destroy", call.db,
                                     IF IsError(resp.error)
                                     THEN <<call.docId, Undefined>>
                                     ELSE <<call.docId, resp.body._rev>>,
                                     c, 0))
    /\ UNCHANGED <<prefix, dbs, builders>>

\* the callback of the get: reject on an error, otherwise issue the destroy
RevCallback(r, resp) ==
    /\ InFlight(r, "get")
    /\ calls[reqs[r].owner].op = "deleteDoc"
    /\ LET c == reqs[r].owner
           call == calls[c]
       IN  IF IsError(resp.error)
           THEN /\ calls' = [calls EXCEPT ![c].result = Reject(@, resp.error)]
                /\ reqs' = [reqs EXCEPT ![r].resp = resp]
           ELSE /\ calls' = calls
                /\ reqs' = Append([reqs EXCEPT ![r].resp = resp],
                                  Request(c, "destroy", call.db,
                                          DocDestroyArgs(call.docId, resp.body),
                                          c, 0))
    /\ UNCHANGED <<prefix, dbs, builders>>

\* DELETE /db/id?rev=r
DocDestroyBody(r) == [ok |-> TRUE, id |-> reqs[r].args[1], rev |-> "3-z"]

DocDestroyResponses(r) == DocResponses(r, {DocDestroyBody(r)}, "conflict")

\* a destroy callback that fetches the revisions again after a failure, once
DocDestroyCallbackRetry(r, resp) ==
    /\ InFlight(r, "destroy")
    /\ LET c == reqs[r].owner
       IN  IF IsError(resp.error) /\ Cardinality(RequestsOf(c, "get")) < 2
           THEN /\ calls' = calls
                /\ reqs' = Append([reqs EXCEPT ![r].resp = resp],
                                  Request(c, "get", calls[c].db,
                                          <<calls[c].docId,
                                            [revs_info |-> TRUE]>>, c, 0))
           ELSE Deliver(r, resp, c,
                        [calls[c] EXCEPT !.result =
                             Settle(calls[c].result, resp.error, resp.body)])
    /\ UNCHANGED <<prefix, dbs, builders>>

DocDestroyCallback(r, resp) ==
    /\ InFlight(r, "destroy")
    /\ LET c == reqs[r].owner
       IN  Deliver(r, resp, c,
                   [calls[c] EXCEPT !.result =
                        Settle(calls[c].result, resp.error, resp.body)])
    /\ UNCHANGED <<prefix, dbs, builders>>

----------------------------------------------------------------------------
(* Other clients of the same server. *)

ServerCreate(n) ==
    /\ n \notin dbs
    /\ dbs' = dbs \cup {n}
    /\ UNCHANGED <<prefix, builders, calls, reqs>>

ServerDestroy(n) ==
    /\ n \in dbs
    /\ dbs' = dbs \ {n}
    /\ UNCHANGED <<prefix, builders, calls, reqs>>

----------------------------------------------------------------------------
(* The arguments the callers pass. *)

NameArgs ==
    {Scalar(n) : n \in DbNames} \cup
    {ArrayArg(s) : s \in SeqsUpTo(DbNames, MaxNames)}

ItemArgs ==
    {Scalar(d) : d \in Docs} \cup
    {ArrayArg(s) : s \in SeqsUpTo(Docs, MaxItems)}

ParamArgs == {Undefined, Defined([key |-> "x"])}

ViewMapArgs ==
    {[byName |-> [map |-> "fm"]], [byName |-> [map |-> "fm", reduce |-> "fr"]]}

\* the builders (indices of builders) of one kind
BuildersOf(kind) == {b \in 1..Len(builders) : builders[b].kind = kind}

\* databases that other clients create and destroy
OtherNames == {"a"}

----------------------------------------------------------------------------
(* Specifications. *)

Init ==
    /\ prefix \in Prefixes
    /\ dbs = {"b", "p_b"}
    /\ builders = <<>>
    /\ calls = <<>>
    /\ reqs = <<>>

\* the transport delivers the callback of a request in flight
Callbacks ==
    \/ \E r \in Sent("db.create") : \E out \in CreateOutcomes(r) :
          CreateCallback(r, out)
    \/ \E r \in Sent("db.destroy") : \E out \in DestroyOutcomes(r) :
          DestroyCallback(r, out)
    \/ \E r \in Sent("insert") : \E resp \in InsertResponses(r) :
          InsertCallback(r, resp)
    \/ \E r \in Sent("get") : \E resp \in GetResponses(r) :
          GetCallback(r, resp)
    \/ \E r \in Sent("list") : \E resp \in GetListResponses(r) :
          GetListCallback(r, resp)
    \/ \E r \in Sent("insert") : \E resp \in InsertResponses(r) :
          DesignCallback(r, resp)
    \/ \E r \in Sent("view") : \E resp \in ViewResponses(r) :
          ViewCallback(r, resp)
    \/ \E r \in Sent("db.list") : \E resp \in ListResponses(r) :
          ListCallback(r, resp)
    \/ \E r \in Sent("get") : \E resp \in GetResponses(r) :
          RevCallback(r, resp)
    \/ \E r \in Sent("destroy") : \E resp \in DocDestroyResponses(r) :
          DocDestroyCallback(r, resp)

\* one builder (of insert or of getView) at most, and MaxCalls invocations of
\* any operation
Next ==
    \/ /\ Len(calls) < MaxCalls
       /\ \/ \E n \in DbNames : Create(n)
          \/ \E n \in DbNames : Destroy(n)
          \/ \E b \in BuildersOf("insert"), n \in DbNames : Into(b, n)
          \/ \E id \in DocIds, n \in DbNames : Get(id, n)
          \/ \E n \in DbNames : GetList(n)
          \/ \E vm \in ViewMapArgs, n \in DbNames : AddDesign("d", vm, n)
          \/ \E b \in BuildersOf("getView"), n \in DbNames : From(b, n)
          \/ \E arg \in NameArgs : CheckDbExists(arg)
          \/ \E id \in DocIds, n \in DbNames : DeleteDocFrom(id, n)
    \/ /\ builders = <<>>
       /\ \/ \E items \in ItemArgs : Insert(items)
          \/ GetView("d", "v")
    \/ \E b \in BuildersOf("insert"), k \in KeyNames : WithKey(b, k)
    \/ \E b \in BuildersOf("getView"), p \in ParamArgs :
          Len(builders[b].args) < MaxArgs /\ WithParams(b, p)
    \/ Callbacks
    \/ \E n \in OtherNames : ServerCreate(n)
    \/ \E n \in OtherNames : ServerDestroy(n)

Spec == Init /\ [][Next]_vars

\* checkDbExists against a server whose databases do not change
InitStatic ==
    /\ prefix \in Prefixes
    /\ dbs \in SUBSET DbNames
    /\ builders = <<>>
    /\ calls = <<>>
    /\ reqs = <<>>

NextStatic ==
    \/ Len(calls) < MaxCalls /\ \E arg \in NameArgs : CheckDbExists(arg)
    \/ \E r \in Sent("db.list") : \E resp \in ListResponses(r) :
          ListCallback(r, resp)

SpecStatic == InitStatic /\ [][NextStatic]_vars

\* one insert builder and the batches it is executed for
NextInsert ==
    \/ builders = <<>> /\ \E items \in ItemArgs : Insert(items)
    \/ \E b \in BuildersOf("insert"), k \in KeyNames : WithKey(b, k)
    \/ /\ Len(calls) < MaxCalls
       /\ \E b \in BuildersOf("insert"), n \in DbNames : Into(b, n)
    \/ \E r \in Sent("insert") : \E resp \in InsertResponses(r) :
          InsertCallback(r, resp)

SpecInsert == Init /\ [][NextInsert]_vars

\* overlapping deleteDoc invocations
NextDelete ==
    \/ /\ Len(calls) < MaxDeletes
       /\ \E id \in DocIds, n \in DbNames : DeleteDocFrom(id, n)
    \/ \E r \in Sent("get") : \E resp \in GetResponses(r) :
          RevCallback(r, resp)
    \/ \E r \in Sent("destroy") : \E resp \in DocDestroyResponses(r) :
          DocDestroyCallback(r, resp)

SpecDelete == Init /\ [][NextDelete]_vars

\* one name and a list of two names, one document and a batch of two
SomeNameArgs == {Scalar("a"), ArrayArg(<<"b", "a">>)}

SomeItemArgs ==
    {Scalar(d) : d \in {e \in Docs : e.name = "jeff"}} \cup
    {ArrayArg(s) : s \in {t \in SeqsUpTo(Docs, 2) :
                            Len(t) = 2 /\ t[1].name = "jeff" /\ t[2] # t[1]}}

\* overlapping invocations of all the operations against a server that no
\* other client changes
NextOps ==
    \/ /\ Len(calls) < MaxCalls
       /\ \/ \E n \in DbNames : Create(n)
          \/ \E n \in DbNames : Destroy(n)
          \/ \E b \in BuildersOf("insert"), n \in DbNames : Into(b, n)
          \/ \E id \in DocIds, n \in DbNames : Get(id, n)
          \/ \E n \in DbNames : GetList(n)
          \/ \E vm \in ViewMapArgs, n \in DbNames : AddDesign("d", vm, n)
          \/ \E b \in BuildersOf("getView"), n \in DbNames : From(b, n)
          \/ \E arg \in SomeNameArgs : CheckDbExists(arg)
          \/ \E id \in DocIds, n \in DbNames : DeleteDocFrom(id, n)
    \/ /\ builders = <<>>
       /\ \/ \E items \in SomeItemArgs : Insert(items)
          \/ GetView("d", "v")
    \/ \E b \in BuildersOf("insert"), k \in KeyNames : WithKey(b, k)
    \/ \E b \in BuildersOf("getView"), p \in ParamArgs :
          Len(builders[b].args) < MaxArgs /\ WithParams(b, p)
    \/ Callbacks

SpecOps == Init /\ [][NextOps]_vars

\* overlapping invocations of checkDbExists while other clients create and
\* destroy databases
NextChecks ==
    \/ Len(calls) < MaxChecks /\ \E arg \in SomeNameArgs : CheckDbExists(arg)
    \/ \E r \in Sent("db.list") : \E resp \in ListResponses(r) :
          ListCallback(r, resp)
    \/ \E n \in OtherNames : ServerCreate(n)
    \/ \E n \in OtherNames : ServerDestroy(n)

SpecChecks == Init /\ [][NextChecks]_vars

\* one getView builder and its executions
NextView ==
    \/ builders = <<>> /\ GetView("d", "v")
    \/ \E b \in BuildersOf("getView"), p \in ParamArgs :
          Len(builders[b].args) < MaxArgs /\ WithParams(b, p)
    \/ /\ Len(calls) < MaxFroms
       /\ \E b \in BuildersOf("getView"), n \in DbNames : From(b, n)
    \/ \E r \in Sent("view") : \E resp \in ViewResponses(r) :
          ViewCallback(r, resp)

SpecView == Init /\ [][NextView]_vars

\* no request is in flight
Idle == \A r \in 1..Len(reqs) : reqs[r].resp.delivered

\* a server without databases
InitLifecycle ==
    /\ prefix \in Prefixes
    /\ dbs = {}
    /\ builders = <<>>
    /\ calls = <<>>
    /\ reqs = <<>>

\* the database of the sequence, and the names it is looked up by
LifecycleNames == {"a"}

LifecycleChecked == {"a", "p_a"}

\* a caller that creates, checks and destroys a database one invocation after
\* the other, each issued when the one before has been answered, against a
\* server that no other client changes
NextLifecycle ==
    \/ /\ Len(calls) < MaxSteps
       /\ Idle
       /\ \/ \E n \in LifecycleNames : Create(n)
          \/ \E n \in LifecycleNames : Destroy(n)
          \/ \E n \in LifecycleChecked : CheckDbExists(Scalar(n))
    \/ \E r \in Sent("db.create") : \E out \in CreateOutcomes(r) :
          CreateCallback(r, out)
    \/ \E r \in Sent("db.destroy") : \E out \in DestroyOutcomes(r) :
          DestroyCallback(r, out)
    \/ \E r \in Sent("db.list") : \E resp \in ListResponses(r) :
          ListCallback(r, resp)

SpecLifecycle == InitLifecycle /\ [][NextLifecycle]_vars

----------------------------------------------------------------------------
(* Properties. *)

\* the invocations (indices of calls) of one operation
CallsOf(op) == {c \in 1..Len(calls) : calls[c].op = op}

\* the i-th request that invocation c issued with `method`, in issue order
NthRequest(c, method, i) ==
    CHOOSE r \in RequestsOf(c, method) :
        Cardinality({q \in RequestsOf(c, method) : q < r}) = i - 1

Succeeded(r) == reqs[r].resp.delivered /\ ~IsError(reqs[r].resp.error)

Failed(r) == reqs[r].resp.delivered /\ IsError(reqs[r].resp.error)

\* C1: every checkDbExists invocation with at least one name issues exactly
\* one list-databases request over the whole invocation.
C1_OneListRequest ==
    \A c \in CallsOf("checkDbExists") :
        Len(calls[c].dbNames) >= 1 =>
            Cardinality(RequestsOf(c, "db.list")) = 1

\* C2: when all k transport inserts of insert(docs).into(db) have succeeded,
\* the aggregate is fulfilled with the k response bodies in input order: the
\* i-th value is the body answered to the request that carried the i-th
\* document, whatever the order of the callbacks.
C2_BodiesInInputOrder ==
    \A c \in CallsOf("insert") :
        LET k == Len(calls[c].items)
        IN  /\ Cardinality(RequestsOf(c, "insert")) = k
            /\ \A i \in 1..k :
                  reqs[NthRequest(c, "insert", i)].args[1] = calls[c].items[i]
            /\ (\A r \in RequestsOf(c, "insert") : Succeeded(r)) =>
                  /\ calls[c].result.state = "fulfilled"
                  /\ Len(calls[c].result.value) = k
                  /\ \A i \in 1..k :
                        calls[c].result.value[i] =
                            reqs[NthRequest(c, "insert", i)].resp.body

\* a batch of two documents, both inserted, the aggregate holding both bodies
C2_Witness ==
    \E c \in CallsOf("insert") :
        /\ Len(calls[c].items) = 2
        /\ \A r \in RequestsOf(c, "insert") : Succeeded(r)
        /\ calls[c].result.state = "fulfilled"
        /\ calls[c].result.value[1] # calls[c].result.value[2]

\* this step delivers the first failing insert callback of invocation c
FirstFailure(c, r) ==
    /\ ~reqs[r].resp.delivered
    /\ Failed(r)'
    /\ \A q \in RequestsOf(c, "insert") : ~Failed(q)

\* C3: the aggregate of insert(docs).into(db) fails with the error of the
\* first failing insert callback at the step that delivers it, keeps that
\* failure whatever the remaining callbacks bring, and is fulfilled only with
\* the bodies of all the documents, never with some of them.
C3_FirstFailureRejects ==
    /\ [][\A c \in CallsOf("insert") : \A r \in RequestsOf(c, "insert") :
             FirstFailure(c, r) =>
                 calls'[c].result = Rejected(reqs'[r].resp.error)]_vars
    /\ [][\A c \in CallsOf("insert") :
             calls[c].result.state = "rejected" =>
                 calls'[c].result = calls[c].result]_vars
    /\ [](\A c \in CallsOf("insert") :
             calls[c].result.state = "fulfilled" =>
                 /\ \A r \in RequestsOf(c, "insert") : Succeeded(r)
                 /\ Len(calls[c].result.value) = Len(calls[c].items))

\* the aggregate has failed with an insert's error while a sibling insert is
\* still in flight
C3_Witness ==
    \E c \in CallsOf("insert") :
        /\ calls[c].result.state = "rejected"
        /\ \E r \in RequestsOf(c, "insert") :
              Failed(r) /\ calls[c].result.reason = reqs[r].resp.error
        /\ \E r \in RequestsOf(c, "insert") : ~reqs[r].resp.delivered

\* C4: in deleteDoc(id).from(db) a destroy request exists only after the get
\* callback of the same invocation has been delivered; when that get failed,
\* the invocation issues no destroy and fails with the get's error.
C4_DestroyAfterGet ==
    \A c \in CallsOf("deleteDoc") :
        /\ \A d \in RequestsOf(c, "destroy") :
              \E g \in RequestsOf(c, "get") : g < d /\ reqs[g].resp.delivered
        /\ \A g \in RequestsOf(c, "get") :
              Failed(g) =>
                  /\ RequestsOf(c, "destroy") = {}
                  /\ calls[c].result = Rejected(reqs[g].resp.error)

\* one invocation whose get failed, and one whose get was answered and whose
\* destroy is out
C4_Witness ==
    /\ \E c \in CallsOf("deleteDoc") :
          \E g \in RequestsOf(c, "get") :
              Failed(g) /\ calls[c].result.state = "rejected"
    /\ \E c \in CallsOf("deleteDoc") : RequestsOf(c, "destroy") # {}

\* C5: the destroy request of a deleteDoc invocation carries that
\* invocation's document id and the revision of that invocation's own
\* successful get response, in every interleaving of invocations.
C5_OwnRevision ==
    \A c \in CallsOf("deleteDoc") :
        \A d \in RequestsOf(c, "destroy") :
            \A g \in RequestsOf(c, "get") :
                /\ Succeeded(g)
                /\ reqs[d].args = <<calls[c].docId, reqs[g].resp.body._rev>>

\* two invocations on the same document of the same database, each with its
\* destroy out, that were given different revisions
C5_Witness ==
    \E c1, c2 \in CallsOf("deleteDoc") :
        /\ c1 # c2
        /\ calls[c1].docId = calls[c2].docId
        /\ calls[c1].db = calls[c2].db
        /\ \E d1 \in RequestsOf(c1, "destroy"), d2 \in RequestsOf(c2, "destroy") :
              reqs[d1].args[2] # reqs[d2].args[2]

\* the names as the caller supplied them, a single name being a list of one
SuppliedNames(arg) == IF arg.isArray THEN arg.array ELSE <<arg.scalar>>

C7_OneListing ==
    \A c \in CallsOf("checkDbExists") :
        /\ \A r1, r2 \in RequestsOf(c, "db.list") :
              Succeeded(r1) /\ Succeeded(r2) =>
                  reqs[r1].resp.body = reqs[r2].resp.body
        /\ \A r \in RequestsOf(c, "db.list") :
              Succeeded(r) /\ calls[c].dbList.defined =>
                  calls[c].dbList = reqs[r].resp.body

\* C8: with withKey(f) set, into(db) issues for each document d an insert
\* whose explicit identifier is d[f]; without withKey no identifier is passed.
C8_KeyFieldValue ==
    \A c \in CallsOf("insert") :
        \A i \in 1..Len(calls[c].items) :
            LET d == calls[c].items[i]
                f == calls[c].keyName
            IN  reqs[NthRequest(c, "insert", i)].args =
                    IF f.defined THEN <<d, d[f.value]>> ELSE <<d>>

\* resolve(name)
Resolved(name) == IF prefix # "" THEN prefix \o name ELSE name

\* C9: every transport call of an operation that takes a logical database
\* name is addressed to prefix + name (to name when no prefix is set), and
\* checkDbExists compares the names as supplied.
C9_PrefixedNames ==
    /\ \A r \in 1..Len(reqs) :
          calls[reqs[r].call].op # "checkDbExists" =>
              reqs[r].db = Resolved(calls[reqs[r].call].logical)
    /\ \A c \in CallsOf("checkDbExists") :
          \A r \in RequestsOf(c, "db.list") :
              Succeeded(r) /\ calls[c].promises[reqs[r].slot].state = "fulfilled" =>
                  calls[c].promises[reqs[r].slot].value =
                      (\E k \in 1..Len(reqs[r].resp.body.list) :
                          reqs[r].resp.body.list[k] =
                              SuppliedNames(calls[c].arg)[reqs[r].slot])

\* C10: when a list-databases request of checkDbExists fails with error e,
\* the result is rejected with e, and nothing is thrown inside the callback.
C10_ListErrorRejects ==
    \A c \in CallsOf("checkDbExists") :
        \A r \in RequestsOf(c, "db.list") :
            Failed(r) =>
                /\ ~calls[c].threw
                /\ calls[c].result.state = "rejected"
                /\ \E q \in RequestsOf(c, "db.list") :
                      Failed(q) /\ calls[c].result.reason = reqs[q].resp.error

\* every request that invocation c issued has had its callback delivered
Answered(c) ==
    \A r \in 1..Len(reqs) : reqs[r].call = c => reqs[r].resp.delivered

\* C11: every issued operation settles once the callbacks of the transport
\* calls it issued have been delivered: no invocation is left pending with
\* all of its callbacks delivered (only a callback settles a result, so such
\* an invocation stays pending for ever).
C11_AnsweredSettles ==
    \A c \in 1..Len(calls) :
        Answered(c) => calls[c].result.state # "pending"

\* C12: the result of an operation is settled at most once and never changes
\* afterwards, whatever callbacks are delivered later; the aggregate of a batch
\* insert is fulfilled only when every insert has succeeded and is otherwise
\* rejected with the error of one failed insert, never with a partial list.
C12_SettledOnce ==
    /\ [][\A c \in 1..Len(calls) :
            calls[c].result.state # "pending" =>
                calls'[c].result = calls[c].result]_vars
    /\ [](\A c \in CallsOf("insert") :
            /\ calls[c].result.state = "fulfilled" =>
                  /\ Len(calls[c].result.value) = Len(calls[c].items)
                  /\ \A r \in RequestsOf(c, "insert") : Succeeded(r)
            /\ calls[c].result.state = "rejected" =>
                  \E r \in RequestsOf(c, "insert") :
                      Failed(r) /\ calls[c].result.reason = reqs[r].resp.error)

\* both inserts of a batch have failed, the second after the aggregate had
\* been rejected with the error of the first
C12_Witness ==
    \E c \in CallsOf("insert") :
        /\ Len(calls[c].items) = 2
        /\ \A r \in RequestsOf(c, "insert") : Failed(r)
        /\ calls[c].result.state = "rejected"

\* the create and destroy invocations before c that succeeded on the
\* database named `name`, and the last of them
Changes(c, name) ==
    {k \in 1..(c - 1) :
        /\ calls[k].op \in {"create", "destroy"}
        /\ calls[k].result.state = "fulfilled"
        /\ calls[k].logical = name}

LastChange(c, name) ==
    CHOOSE k \in Changes(c, name) : \A j \in Changes(c, name) : j <= k

\* the logical names that resolve to the physical name `name`
LogicalOf(name) == {n \in DbNames : Resolved(n) = name}

\* C13 as stated: under any prefix, a checkDbExists(n) that follows a
\* successful create(n) yields [true], and one that follows a successful
\* destroy(n) yields [false].
C13_CheckFollows ==
    \A c \in CallsOf("checkDbExists") :
        LET n == calls[c].arg.scalar
        IN  calls[c].result.state = "fulfilled" /\ Changes(c, n) # {} =>
                calls[c].result.value =
                    <<calls[LastChange(c, n)].op = "create">>

\* C13 amended: under any prefix, a checkDbExists(resolve(n)) that follows a
\* successful create(n) yields [true], and one that follows a successful
\* destroy(n) yields [false]; checkDbExists(n) does so when no prefix is set.
C13_CheckFollowsResolved ==
    \A c \in CallsOf("checkDbExists") :
        \A n \in LogicalOf(calls[c].arg.scalar) :
            calls[c].result.state = "fulfilled" /\ Changes(c, n) # {} =>
                calls[c].result.value =
                    <<calls[LastChange(c, n)].op = "create">>

\* with a prefix set: create(n), checkDbExists(prefix + n) giving [true],
\* destroy(n), checkDbExists(prefix + n) giving [false]
C13_Witness ==
    /\ prefix # ""
    /\ \E n \in DbNames : \E c1, c2 \in CallsOf("checkDbExists") :
          /\ calls[c1].arg.scalar = Resolved(n)
          /\ calls[c2].arg.scalar = Resolved(n)
          /\ Changes(c1, n) # {} /\ calls[LastChange(c1, n)].op = "create"
          /\ Changes(c2, n) # {} /\ calls[LastChange(c2, n)].op = "destroy"
          /\ c1 < c2
          /\ calls[c1].result = Fulfilled(<<TRUE>>)
          /\ calls[c2].result = Fulfilled(<<FALSE>>)

\* the request that invocation c issued for the name at position i
ListRequestOf(c, i) ==
    CHOOSE r \in RequestsOf(c, "db.list") : reqs[r].slot = i

\* C14: the listing of checkDbExists belongs to one invocation: every
\* invocation issues list requests of its own, the listing it holds is one
\* answered to a request of its own, and each of its results is the
\* membership of the name in the listing answered to its own request, never
\* in a listing fetched by another invocation.
C14_OwnListing ==
    \A c \in CallsOf("checkDbExists") :
        /\ \A i \in 1..Len(calls[c].dbNames) :
              /\ \E r \in RequestsOf(c, "db.list") : reqs[r].slot = i
              /\ calls[c].promises[i].state = "fulfilled" =>
                    /\ Succeeded(ListRequestOf(c, i))
                    /\ calls[c].promises[i].value =
                          (\E k \in 1..Len(reqs[ListRequestOf(c, i)]
                                              .resp.body.list) :
                              reqs[ListRequestOf(c, i)].resp.body.list[k] =
                                  calls[c].dbNames[i])
        /\ calls[c].dbList.defined =>
              \E r \in RequestsOf(c, "db.list") :
                  Succeeded(r) /\ calls[c].dbList = reqs[r].resp.body

\* two invocations for the same name, answered different listings, with
\* different results
C14_Witness ==
    \E c1, c2 \in CallsOf("checkDbExists") :
        /\ c1 < c2
        /\ calls[c1].arg = calls[c2].arg
        /\ calls[c1].result.state = "fulfilled"
        /\ calls[c2].result.state = "fulfilled"
        /\ calls[c1].result.value # calls[c2].result.value
        /\ calls[c1].dbList # calls[c2].dbList

\* the requests that invocation c issued
Requests(c) == {r \in 1..Len(reqs) : reqs[r].call = c}

\* the value a single-step operation resolves with: nothing for create and
\* destroy, the response body for the others
PassedValue(c, r) ==
    IF calls[c].op \in {"create", "destroy"} THEN Undefined
    ELSE reqs[r].resp.body

\* C15: every invocation of create, destroy, get.from, getList.from,
\* getView.from and addDesign.to issues exactly one transport call, is
\* fulfilled (with the body, or with no value for create and destroy) when
\* that call reports no error, and is rejected with exactly its error
\* otherwise.
C15_OneCallPassedThrough ==
    \A c \in 1..Len(calls) :
        calls[c].op \in {"create", "destroy", "get", "getList", "getView",
                         "addDesign"} =>
            /\ Cardinality(Requests(c)) = 1
            /\ \A r \in Requests(c) :
                  /\ Succeeded(r) =>
                        calls[c].result = Fulfilled(PassedValue(c, r))
                  /\ Failed(r) =>
                        calls[c].result = Rejected(reqs[r].resp.error)

\* invocation c is the first execution of its getView builder
FirstExecution(c) ==
    \A k \in CallsOf("getView") :
        calls[k].builder = calls[c].builder => c <= k

\* the arguments `args` are the entries of `expected`, kind by kind and value
\* by value
SameArguments(args, expected) ==
    /\ Len(args) = Len(expected)
    /\ \A i \in 1..Len(args) :
          args[i].t = expected[i].t /\ args[i] = expected[i]

\* C16: getView(d, v).withParams(p).from(db) issues one view request with
\* exactly (d, v, p, callback), and getView(d, v).from(db) one with exactly
\* (d, v, callback), the callback being the one that settles the invocation.
C16_ViewArguments ==
    \A c \in CallsOf("getView") :
        FirstExecution(c) /\ Len(calls[c].given) <= 1 =>
            /\ Cardinality(RequestsOf(c, "view")) = 1
            /\ \A r \in RequestsOf(c, "view") :
                  /\ SameArguments(reqs[r].args,
                        <<String(calls[c].designName),
                          String(calls[c].viewName)>>
                        \o [i \in 1..Len(calls[c].given) |->
                               Object(calls[c].given[i])]
                        \o <<Function(c)>>)
                  /\ reqs[r].owner = c

\* a chain with withParams(p), executed and answered
C16_Witness ==
    \E c \in CallsOf("getView") :
        /\ FirstExecution(c)
        /\ Len(calls[c].given) = 1
        /\ \E r \in RequestsOf(c, "view") :
              Len(reqs[r].args) = 4 /\ Succeeded(r)
        /\ calls[c].result.state = "fulfilled"

\* the entries of args that are functions
Functions(args) == {i \in 1..Len(args) : args[i].t = "function"}

\* C20: a getView builder can be executed repeatedly: every from() on it
\* issues a view request whose arguments hold exactly one callback, that
\* invocation's own, and at most one params map, and the answer to the
\* request settles that invocation's result and no other.
C20_BuilderReusable ==
    \A c \in CallsOf("getView") :
        \A r \in RequestsOf(c, "view") :
            /\ \A i \in Functions(reqs[r].args) :
                  reqs[r].args[i] = Function(c)
            /\ Cardinality(Functions(reqs[r].args)) = 1
            /\ Cardinality({i \in 1..Len(reqs[r].args) :
                                reqs[r].args[i].t = "object"}) <= 1
            /\ reqs[r].owner = c

\* C17: insert(d).into(x) with a single non-array document d behaves as
\* insert([d]).into(x): the batch is the one document d, one insert request
\* carries d to the same database, and the result is the one-element list
\* holding the response body, or the failure of that insert.
C17_SingleAsBatchOfOne ==
    \A c \in CallsOf("insert") :
        ~calls[c].given.isArray =>
            /\ calls[c].items = <<calls[c].given.scalar>>
            /\ Cardinality(RequestsOf(c, "insert")) = 1
            /\ \A r \in RequestsOf(c, "insert") :
                  /\ reqs[r].args[1] = calls[c].given.scalar
                  /\ reqs[r].db = Resolved(calls[c].logical)
                  /\ ~reqs[r].resp.delivered => calls[c].result = Pending
                  /\ Succeeded(r) =>
                        calls[c].result = Fulfilled(<<reqs[r].resp.body>>)
                  /\ Failed(r) =>
                        calls[c].result = Rejected(reqs[r].resp.error)

\* a single document inserted, the result being the list of its one body
C17_Witness ==
    \E c \in CallsOf("insert") :
        /\ ~calls[c].given.isArray
        /\ \E r \in RequestsOf(c, "insert") : Succeeded(r)
        /\ calls[c].result.state = "fulfilled"
        /\ Len(calls[c].result.value) = 1

\* C18: insert(docs).into(db) with k documents issues exactly k insert
\* requests, the i-th carrying the i-th document, all of them at the
\* invocation and so before any of its callbacks is handled; the requests
\* stay as issued whatever the siblings are answered, and a request answered
\* after a sibling has failed still settles its own deferred.
C18_AllIssuedAtOnce ==
    /\ [](\A c \in CallsOf("insert") :
            LET issued == RequestsOf(c, "insert")
            IN  /\ Cardinality(issued) = Len(calls[c].items)
                /\ \A r, q \in issued : r < q <=> reqs[r].slot < reqs[q].slot
                /\ \A r \in issued :
                      LET i == reqs[r].slot
                      IN  /\ i \in 1..Len(calls[c].items)
                          /\ reqs[r].args[1] = calls[c].items[i]
                          /\ Succeeded(r) =>
                                calls[c].inserting[i] =
                                    Fulfilled(reqs[r].resp.body)
                          /\ Failed(r) =>
                                calls[c].inserting[i] =
                                    Rejected(reqs[r].resp.error)
                          /\ ~reqs[r].resp.delivered =>
                                calls[c].inserting[i] = Pending)
    /\ [][/\ Len(reqs') > Len(reqs) => Len(calls') > Len(calls)
          /\ \A r \in 1..Len(reqs) :
                /\ reqs'[r].call = reqs[r].call
                /\ reqs'[r].args = reqs[r].args
                /\ reqs[r].resp.delivered => reqs'[r].resp = reqs[r].resp]_vars

\* a batch of two: one insert has failed and rejected the aggregate, the
\* sibling has been answered all the same and has succeeded
C18_Witness ==
    \E c \in CallsOf("insert") :
        /\ Len(calls[c].items) = 2
        /\ \E r, q \in RequestsOf(c, "insert") :
              /\ Failed(r)
              /\ Succeeded(q)
              /\ calls[c].inserting[reqs[q].slot].state = "fulfilled"
        /\ calls[c].result.state = "rejected"

\* C19: a deleteDoc invocation issues exactly one get and, when the get has
\* succeeded, exactly one destroy, and never another request; when the
\* destroy fails the invocation fails with the destroy's error, and when it
\* succeeds the invocation succeeds with the destroy's response body.
C19_DestroyOutcome ==
    \A c \in CallsOf("deleteDoc") :
        /\ Cardinality(RequestsOf(c, "get")) = 1
        /\ Cardinality(RequestsOf(c, "destroy")) <= 1
        /\ Requests(c) = RequestsOf(c, "get") \cup RequestsOf(c, "destroy")
        /\ \A g \in RequestsOf(c, "get") :
              Succeeded(g) => Cardinality(RequestsOf(c, "destroy")) = 1
        /\ \A d \in RequestsOf(c, "destroy") :
              /\ ~reqs[d].resp.delivered => calls[c].result = Pending
              /\ Failed(d) => calls[c].result = Rejected(reqs[d].resp.error)
              /\ Succeeded(d) => calls[c].result = Fulfilled(reqs[d].resp.body)

\* one invocation whose destroy failed after its get had succeeded, and one
\* whose destroy succeeded
C19_Witness ==
    /\ \E c \in CallsOf("deleteDoc") :
          /\ \E g \in RequestsOf(c, "get") : Succeeded(g)
          /\ \E d \in RequestsOf(c, "destroy") : Failed(d)
          /\ calls[c].result.state = "rejected"
    /\ \E c \in CallsOf("deleteDoc") :
          /\ \E d \in RequestsOf(c, "destroy") : Succeeded(d)
          /\ calls[c].result.state = "fulfilled"

============================================================================
